---- MODULE Spec2Model ----
(***************************************************************************)
(* Model of spectacle-ocr-screenshot (src/main.cpp): the capture ->        *)
(* barcode -> OCR -> display/export sequence of main(), the four button    *)
(* handlers of the result window, and the text conversions they use.       *)
(*                                                                         *)
(* Recognised text is a sequence of one-character strings over Alphabet;   *)
(* the status label, alert texts and the language tag are TLA+ strings.    *)
(***************************************************************************)
EXTENDS Naturals, Integers, Sequences, FiniteSets, TLC

\* ---------------------------------------------------------------- bounds
MaxLen == 3          \* longest recognised text (barcode payload / OCR text)
MaxEditLen == 1      \* longest text the user types into the text area
MaxClicks == 2       \* user operations (edits + button clicks) per run

\* ----------------------------------------------------------- input sets
\* One letter that is an HTML element name ("b") and the four characters
\* QString::toHtmlEscaped rewrites.
Alphabet == {"b", "<", ">", "&", "\""}

Texts == UNION {[1..n -> Alphabet] : n \in 0..MaxLen}

EditTexts == UNION {[1..n -> Alphabet] : n \in 0..MaxEditLen}

\* --lang values: the default, an unknown tag, a "+"-joined pair.
Langs == {"eng", "xx", "eng+hin"}

\* Exit codes of the spectacle process; -2 is QProcess::execute's
\* "could not be started".
ExitCodes == {0, 1, -2}

\* A value that is no text: an unset clipboard, a file never written.
Nothing == <<"(none)">>

tempPath == "/tmp/screenshot.png"

\* ------------------------------------------------------ text conversions
RECURSIVE Flatten(_)
Flatten(ss) == IF ss = <<>> THEN <<>> ELSE Head(ss) \o Flatten(Tail(ss))

\* QString::toHtmlEscaped on one character.
EscapeChar(c) ==
    CASE c = "<"  -> <<"&", "l", "t", ";">>
      [] c = ">"  -> <<"&", "g", "t", ";">>
      [] c = "&"  -> <<"&", "a", "m", "p", ";">>
      [] c = "\"" -> <<"&", "q", "u", "o", "t", ";">>
      [] OTHER    -> <<c>>

\* QString::toHtmlEscaped.
HtmlEscape(s) == Flatten([i \in 1..Len(s) |-> EscapeChar(s[i])])

\* Index of the first occurrence of c in s at or after position from,
\* 0 when there is none (QString::indexOf, 1-based).
IndexOf(s, c, from) ==
    IF \E i \in from..Len(s) : s[i] = c
    THEN CHOOSE i \in from..Len(s) : s[i] = c /\ \A j \in from..(i - 1) : s[j] # c
    ELSE 0

IsLetter(c) == c = "b"

\* Element names QTextHtmlParser::lookupElement knows, over Alphabet.
KnownElements == {<<"b">>}

\* Qt::mightBeRichText, which QTextEdit::setText uses to choose between
\* plain text and HTML: the text up to the first '<' is skipped, and the
\* characters between that '<' and the next '>' must spell a known element.
MightBeRichText(s) ==
    LET open  == IndexOf(s, "<", 1)
        close == IF open = 0 THEN 0 ELSE IndexOf(s, ">", open)
    IN  /\ open # 0
        /\ close # 0
        /\ \A i \in (open + 1)..(close - 1) : IsLetter(s[i])
        /\ SubSeq(s, open + 1, close - 1) \in KnownElements

\* QTextEdit::toPlainText of a document loaded as HTML: markup from each
\* '<' to the next '>' (or to the end) is not text.
RECURSIVE HtmlToPlainText(_)
HtmlToPlainText(s) ==
    IF s = <<>> THEN <<>>
    ELSE IF Head(s) = "<"
         THEN LET close == IndexOf(s, ">", 1)
              IN  IF close = 0 THEN <<>>
                  ELSE HtmlToPlainText(SubSeq(s, close + 1, Len(s)))
         ELSE <<Head(s)>> \o HtmlToPlainText(Tail(s))

\* textEdit->setText(s) followed by textEdit->toPlainText().
SetText(s) == IF MightBeRichText(s) THEN HtmlToPlainText(s) ELSE s

\* ------------------------------------------------------------ statuses
StatusCaptureError == "Error occurred while taking screenshot"
StatusQrOk         == "QR code detected and decoded successfully"
StatusOcrOk        == "Text extracted successfully."
StatusCopied       == "Text copied to clipboard"
StatusNoCopy       == "No text to copy"
StatusSaved        == "Text saved to file"
StatusSaveFailed   == "Failed to save file"
StatusNoSave       == "No text to save"
StatusImageSaved   == "Screenshot saved successfully"
StatusImageFailed  == "Failed to save screenshot"
StatusBrowserOk    == "OCR results opened in web browser"
StatusBrowserFail  == "Failed to open web browser"
StatusHtmlFailed   == "Failed to create HTML file"
StatusNoDisplay    == "No text to display"

ErrQrLoad    == "Failed to load image for QR detection"
ErrQrInvalid == "Failed to detect valid QR code"
ErrOcrInit   == "Error initializing Tesseract OCR for language: "
ErrOcrLoad   == "Failed to load image"

\* ---------------------------------------------------------------- state
VARIABLES
    language,       \* parser.value(langOption)
    disableQr,      \* parser.isSet(disable_qr)
    openInBrowser,  \* parser.isSet(webBrowserOption)
    pc,             \* position of main()
    captureOk,      \* value returned by takeScreenshot
    result,         \* the OcrResult local of main()
    text,           \* textEdit->toPlainText()
    status,         \* label->text()
    windowShown,    \* window.show() has been called
    exitCode,       \* value returned by main(), -1 while it runs
    clipboard,      \* QApplication::clipboard() text
    textFile,       \* the file Save Text wrote
    imageFile,      \* the file Save Image copied to (TRUE once copied)
    htmlFile,       \* text embedded in the <textarea> of the HTML report
    held,           \* resources still held when extractText returned
    log,            \* calls of the stages so far, in order
    lastOp,         \* the step or handler that ran last
    effects,        \* what that step did to the outside world
    clicks          \* user operations so far

vars == <<language, disableQr, openInBrowser, pc, captureOk, result, text,
          status, windowShown, exitCode, clipboard, textFile, imageFile,
          htmlFile, held, log, lastOp, effects, clicks>>

config == <<language, disableQr, openInBrowser>>
outside == <<clipboard, textFile, imageFile, htmlFile>>

\* OcrResult result; (text and errorMessage empty, isQrCode false,
\* success not initialised)
Init ==
    /\ language \in Langs
    /\ disableQr \in BOOLEAN
    /\ openInBrowser \in BOOLEAN
    /\ pc = "capture"
    /\ captureOk = FALSE
    /\ result \in [text : {<<>>}, success : BOOLEAN, errorMessage : {""},
                   isQrCode : {FALSE}]
    /\ text = <<>>
    /\ status = ""
    /\ windowShown = FALSE
    /\ exitCode = -1
    /\ clipboard = Nothing
    /\ textFile = Nothing
    /\ imageFile = FALSE
    /\ htmlFile = Nothing
    /\ held = {}
    /\ log = <<>>
    /\ lastOp = "construct"
    /\ effects = {}
    /\ clicks = 0

Stage(name, ok, arg) == [stage |-> name, ok |-> ok, arg |-> arg]

\* takeScreenshot(tempPath): runs spectacle and waits for it.
takeScreenshot ==
    /\ pc = "capture"
    /\ \E code \in ExitCodes :
         LET ok == (code = 0)
         IN  /\ captureOk' = ok
             /\ log' = Append(log, Stage("capture", ok, tempPath))
             /\ pc' = IF ~ok THEN "capture_failed"
                      ELSE IF ~disableQr THEN "qr" ELSE "ocr"
    /\ lastOp' = "takeScreenshot"
    /\ effects' = {"run_spectacle"}
    /\ UNCHANGED <<config, result, text, status, windowShown, exitCode,
                   outside, held, clicks>>

\* CaptureFailed without the QMessageBox::critical call.
CaptureFailed_noAlert ==
    /\ pc = "capture_failed"
    /\ text' = SetText(<<>>)
    /\ status' = StatusCaptureError
    /\ windowShown' = TRUE
    /\ effects' = {"window_show"}
    /\ log' = Append(log, Stage("show", TRUE, ""))
    /\ pc' = "exec"
    /\ lastOp' = "CaptureFailed"
    /\ UNCHANGED <<config, captureOk, result, exitCode, outside, held, clicks>>

\* The else branch of main(): capture failed.
CaptureFailed ==
    /\ pc = "capture_failed"
    /\ text' = SetText(<<>>)
    /\ status' = StatusCaptureError
    /\ windowShown' = TRUE
    /\ effects' = {"window_show", "alert_critical"}
    /\ log' = Append(log, Stage("show", TRUE, ""))
    /\ pc' = "exec"
    /\ lastOp' = "CaptureFailed"
    /\ UNCHANGED <<config, captureOk, result, exitCode, outside, held, clicks>>

\* detectQrCode(imagePath): the value it returns. imageNull is
\* QImage::isNull(), valid is zxingResult.isValid(), payload its text().
detectQrCode(imageNull, valid, payload) ==
    IF imageNull
    THEN [text |-> <<>>, success |-> FALSE, errorMessage |-> ErrQrLoad,
          isQrCode |-> FALSE]
    ELSE IF valid
    THEN [text |-> payload, success |-> TRUE, errorMessage |-> "",
          isQrCode |-> TRUE]
    ELSE [text |-> <<>>, success |-> FALSE, errorMessage |-> ErrQrInvalid,
          isQrCode |-> FALSE]

\* DetectQr that goes on to OCR whatever the detector returned.
DetectQr_fallThrough ==
    /\ pc = "qr"
    /\ \E imageNull \in BOOLEAN, valid \in BOOLEAN, payload \in Texts :
         LET r == detectQrCode(imageNull, valid, payload)
         IN  /\ result' = r
             /\ log' = Append(log, Stage("qr", r.success, tempPath))
             /\ pc' = "ocr"
    /\ lastOp' = "DetectQr"
    /\ effects' = {}
    /\ UNCHANGED <<config, captureOk, text, status, windowShown, exitCode,
                   outside, held, clicks>>

\* result = detectQrCode(tempPath); if (result.success) ...
DetectQr ==
    /\ pc = "qr"
    /\ \E imageNull \in BOOLEAN, valid \in BOOLEAN, payload \in Texts :
         LET r == detectQrCode(imageNull, valid, payload)
         IN  /\ result' = r
             /\ log' = Append(log, Stage("qr", r.success, tempPath))
             /\ pc' = IF r.success THEN "qr_ok" ELSE "ocr"
    /\ lastOp' = "DetectQr"
    /\ effects' = {}
    /\ UNCHANGED <<config, captureOk, text, status, windowShown, exitCode,
                   outside, held, clicks>>

\* HtmlReport without the toHtmlEscaped call.
HtmlReport_raw(src) == src

\* The text the HTML template embeds in its <textarea> for source text src.
HtmlReport(src) == HtmlEscape(src)

\* What the two auto-export blocks do to the outside world: file.open
\* decides whether anything is written; the value of openUrl is ignored.
AutoExportEffects(fileOpens, launched) ==
    IF fileOpens
    THEN {"write_html", IF launched THEN "open_url" ELSE "open_url_failed"}
    ELSE {"write_html_failed"}

\* The body of if (result.success) after detectQrCode.
QrSuccess ==
    /\ pc = "qr_ok"
    /\ text' = SetText(result.text)
    /\ status' = StatusQrOk
    /\ IF openInBrowser
       THEN \E fileOpens \in BOOLEAN, launched \in BOOLEAN :
              /\ htmlFile' = IF fileOpens THEN HtmlReport(result.text)
                             ELSE htmlFile
              /\ effects' = AutoExportEffects(fileOpens, launched)
              /\ log' = Append(log, Stage("export", fileOpens, ""))
              /\ pc' = "exited"
              /\ exitCode' = 0
              /\ UNCHANGED windowShown
       ELSE /\ windowShown' = TRUE
            /\ effects' = {"window_show"}
            /\ log' = Append(log, Stage("show", TRUE, ""))
            /\ pc' = "exec"
            /\ UNCHANGED <<htmlFile, exitCode>>
    /\ lastOp' = "QrSuccess"
    /\ UNCHANGED <<config, captureOk, result, clipboard, textFile, imageFile,
                   held, clicks>>

\* Resources of extractText: the TessBaseAPI object owned by the
\* unique_ptr, the engine data Init loads, the Pix, the text buffer.
Acq(r) == [op |-> "acquire", res |-> r]
Rel(r) == [op |-> "release", res |-> r]

\* ExtractTextEvents with a raw owning pointer in place of the unique_ptr:
\* nothing runs at the return.
ExtractTextEvents_rawPointer(initFails, pixNull) ==
    IF initFails
    THEN <<Acq("api")>>
    ELSE IF pixNull
    THEN <<Acq("api"), Acq("engine"), Rel("engine")>>
    ELSE <<Acq("api"), Acq("engine"), Acq("pix"), Acq("outText"),
           Rel("outText"), Rel("pix"), Rel("engine")>>

\* The acquisitions and releases along each path of extractText, ending
\* with the unique_ptr's destructor at the return.
ExtractTextEvents(initFails, pixNull) ==
    IF initFails
    THEN <<Acq("api"), Rel("engine"), Rel("api")>>
    ELSE IF pixNull
    THEN <<Acq("api"), Acq("engine"), Rel("engine"), Rel("engine"), Rel("api")>>
    ELSE <<Acq("api"), Acq("engine"), Acq("pix"), Acq("outText"),
           Rel("outText"), Rel("pix"), Rel("engine"), Rel("engine"),
           Rel("api")>>

RECURSIVE HeldAfter(_, _)
HeldAfter(events, h) ==
    IF events = <<>> THEN h
    ELSE LET e == Head(events)
         IN  HeldAfter(Tail(events),
                       IF e.op = "acquire" THEN h \cup {e.res}
                       ELSE h \ {e.res})

\* extractText whose initialisation error does not name the language.
extractText_noLanguage(lang, initFails, pixNull, recognised) ==
    IF initFails
    THEN [text |-> <<>>, success |-> FALSE,
          errorMessage |-> ErrOcrInit, isQrCode |-> FALSE]
    ELSE IF pixNull
    THEN [text |-> <<>>, success |-> FALSE, errorMessage |-> ErrOcrLoad,
          isQrCode |-> FALSE]
    ELSE [text |-> recognised, success |-> TRUE, errorMessage |-> "",
          isQrCode |-> FALSE]

\* extractText(imagePath, lang): the value it returns. initFails is a
\* non-zero ocr->Init, pixNull a null pixRead, recognised GetUTF8Text.
extractText(lang, initFails, pixNull, recognised) ==
    IF initFails
    THEN [text |-> <<>>, success |-> FALSE,
          errorMessage |-> ErrOcrInit \o lang, isQrCode |-> FALSE]
    ELSE IF pixNull
    THEN [text |-> <<>>, success |-> FALSE, errorMessage |-> ErrOcrLoad,
          isQrCode |-> FALSE]
    ELSE [text |-> recognised, success |-> TRUE, errorMessage |-> "",
          isQrCode |-> FALSE]

\* ExtractText that passes the default language instead of --lang.
ExtractText_defaultLanguage ==
    /\ pc = "ocr"
    /\ \E initFails \in BOOLEAN, pixNull \in BOOLEAN, recognised \in Texts :
         LET r == extractText("eng", initFails, pixNull, recognised)
         IN  /\ result' = r
             /\ held' = HeldAfter(ExtractTextEvents(initFails, pixNull), {})
             /\ log' = Append(log, Stage("ocr", r.success, "eng"))
             /\ effects' = IF initFails THEN {"ocr_init_failed"}
                          ELSE IF pixNull THEN {"pix_read_failed"}
                          ELSE {"ocr_run"}
    /\ pc' = "ocr_done"
    /\ lastOp' = "ExtractText"
    /\ UNCHANGED <<config, captureOk, text, status, windowShown, exitCode,
                   outside, clicks>>

\* result = extractText(tempPath, language);
ExtractText ==
    /\ pc = "ocr"
    /\ \E initFails \in BOOLEAN, pixNull \in BOOLEAN, recognised \in Texts :
         LET r == extractText(language, initFails, pixNull, recognised)
         IN  /\ result' = r
             /\ held' = HeldAfter(ExtractTextEvents(initFails, pixNull), {})
             /\ log' = Append(log, Stage("ocr", r.success, language))
             /\ effects' = IF initFails THEN {"ocr_init_failed"}
                          ELSE IF pixNull THEN {"pix_read_failed"}
                          ELSE {"ocr_run"}
    /\ pc' = "ocr_done"
    /\ lastOp' = "ExtractText"
    /\ UNCHANGED <<config, captureOk, text, status, windowShown, exitCode,
                   outside, clicks>>

\* OcrDone that shows the window before it looks at the export flag.
OcrDone_showFirst ==
    /\ pc = "ocr_done"
    /\ windowShown' = TRUE
    /\ IF ~result.success
       THEN /\ text' = SetText(<<>>)
            /\ status' = result.errorMessage
            /\ effects' = {"window_show"}
            /\ log' = Append(log, Stage("show", TRUE, ""))
            /\ pc' = "exec"
            /\ UNCHANGED <<htmlFile, exitCode>>
       ELSE /\ text' = SetText(result.text)
            /\ status' = StatusOcrOk
            /\ IF openInBrowser
               THEN \E fileOpens \in BOOLEAN, launched \in BOOLEAN :
                      /\ htmlFile' = IF fileOpens THEN HtmlReport(result.text)
                                     ELSE htmlFile
                      /\ effects' = AutoExportEffects(fileOpens, launched)
                                      \cup {"window_show"}
                      /\ log' = Append(log, Stage("export", fileOpens, ""))
                      /\ pc' = "exited"
                      /\ exitCode' = 0
               ELSE /\ effects' = {"window_show"}
                    /\ log' = Append(log, Stage("show", TRUE, ""))
                    /\ pc' = "exec"
                    /\ UNCHANGED <<htmlFile, exitCode>>
    /\ lastOp' = "OcrDone"
    /\ UNCHANGED <<config, captureOk, result, clipboard, textFile, imageFile,
                   held, clicks>>

\* if (!result.success) ... else ... window.show(); after extractText.
OcrDone ==
    /\ pc = "ocr_done"
    /\ IF ~result.success
       THEN /\ text' = SetText(<<>>)
            /\ status' = result.errorMessage
            /\ windowShown' = TRUE
            /\ effects' = {"window_show"}
            /\ log' = Append(log, Stage("show", TRUE, ""))
            /\ pc' = "exec"
            /\ UNCHANGED <<htmlFile, exitCode>>
       ELSE /\ text' = SetText(result.text)
            /\ status' = StatusOcrOk
            /\ IF openInBrowser
               THEN \E fileOpens \in BOOLEAN, launched \in BOOLEAN :
                      /\ htmlFile' = IF fileOpens THEN HtmlReport(result.text)
                                     ELSE htmlFile
                      /\ effects' = AutoExportEffects(fileOpens, launched)
                      /\ log' = Append(log, Stage("export", fileOpens, ""))
                      /\ pc' = "exited"
                      /\ exitCode' = 0
                      /\ UNCHANGED windowShown
               ELSE /\ windowShown' = TRUE
                    /\ effects' = {"window_show"}
                    /\ log' = Append(log, Stage("show", TRUE, ""))
                    /\ pc' = "exec"
                    /\ UNCHANGED <<htmlFile, exitCode>>
    /\ lastOp' = "OcrDone"
    /\ UNCHANGED <<config, captureOk, result, clipboard, textFile, imageFile,
                   held, clicks>>

\* ------------------------------------------------- the GUI event loop
InLoop == pc = "exec" /\ clicks < MaxClicks

main == <<pc, captureOk, result, windowShown, exitCode, held, log>>

\* The user types into the text area.
UserEdit ==
    /\ InLoop
    /\ \E t \in EditTexts : t # text /\ text' = t
    /\ clicks' = clicks + 1
    /\ lastOp' = "UserEdit"
    /\ effects' = {}
    /\ UNCHANGED <<config, main, status, outside>>

\* CopyClicked without the isEmpty test.
CopyClicked_unguarded ==
    /\ InLoop
    /\ clipboard' = text
    /\ status' = IF text # <<>> THEN StatusCopied ELSE StatusNoCopy
    /\ effects' = {"clipboard_set"}
    /\ clicks' = clicks + 1
    /\ lastOp' = "CopyClicked"
    /\ UNCHANGED <<config, main, text, textFile, imageFile, htmlFile>>

\* copyButton clicked.
CopyClicked ==
    /\ InLoop
    /\ IF text # <<>>
       THEN /\ clipboard' = text
            /\ status' = StatusCopied
            /\ effects' = {"clipboard_set"}
       ELSE /\ status' = StatusNoCopy
            /\ effects' = {}
            /\ UNCHANGED clipboard
    /\ clicks' = clicks + 1
    /\ lastOp' = "CopyClicked"
    /\ UNCHANGED <<config, main, text, textFile, imageFile, htmlFile>>

\* saveButton clicked. chosen is whether getSaveFileName returned a
\* non-empty name, fileOpens the value of file.open.
SaveClicked ==
    /\ InLoop
    /\ IF text # <<>>
       THEN \E chosen \in BOOLEAN, fileOpens \in BOOLEAN :
              IF ~chosen
              THEN /\ effects' = {"dialog"}
                   /\ UNCHANGED <<status, textFile>>
              ELSE IF fileOpens
              THEN /\ textFile' = text
                   /\ status' = StatusSaved
                   /\ effects' = {"dialog", "write_text"}
              ELSE /\ status' = StatusSaveFailed
                   /\ effects' = {"dialog", "write_text_failed", "alert_critical"}
                   /\ UNCHANGED textFile
       ELSE /\ status' = StatusNoSave
            /\ effects' = {}
            /\ UNCHANGED textFile
    /\ clicks' = clicks + 1
    /\ lastOp' = "SaveClicked"
    /\ UNCHANGED <<config, main, text, clipboard, imageFile, htmlFile>>

\* SaveImageClicked that reports a failure when the dialog is cancelled.
SaveImageClicked_statusOnCancel ==
    /\ InLoop
    /\ \E chosen \in BOOLEAN, copied \in BOOLEAN :
         IF ~chosen
         THEN /\ effects' = {"dialog"}
              /\ status' = StatusImageFailed
              /\ UNCHANGED imageFile
         ELSE IF copied
         THEN /\ imageFile' = TRUE
              /\ status' = StatusImageSaved
              /\ effects' = {"dialog", "copy_image"}
         ELSE /\ status' = StatusImageFailed
              /\ effects' = {"dialog", "copy_image_failed", "alert_critical"}
              /\ UNCHANGED imageFile
    /\ clicks' = clicks + 1
    /\ lastOp' = "SaveImageClicked"
    /\ UNCHANGED <<config, main, text, clipboard, textFile, htmlFile>>

\* saveImageButton clicked. copied is the value of QFile::copy.
SaveImageClicked ==
    /\ InLoop
    /\ \E chosen \in BOOLEAN, copied \in BOOLEAN :
         IF ~chosen
         THEN /\ effects' = {"dialog"}
              /\ UNCHANGED <<status, imageFile>>
         ELSE IF copied
         THEN /\ imageFile' = TRUE
              /\ status' = StatusImageSaved
              /\ effects' = {"dialog", "copy_image"}
         ELSE /\ status' = StatusImageFailed
              /\ effects' = {"dialog", "copy_image_failed", "alert_critical"}
              /\ UNCHANGED imageFile
    /\ clicks' = clicks + 1
    /\ lastOp' = "SaveImageClicked"
    /\ UNCHANGED <<config, main, text, clipboard, textFile, htmlFile>>

\* BrowserClicked that embeds the recognition result, not the text area.
BrowserClicked_recognisedText ==
    /\ InLoop
    /\ IF text # <<>>
       THEN \E fileOpens \in BOOLEAN, launched \in BOOLEAN :
              IF ~fileOpens
              THEN /\ status' = StatusHtmlFailed
                   /\ effects' = {"write_html_failed", "alert_critical"}
                   /\ UNCHANGED htmlFile
              ELSE /\ htmlFile' = HtmlReport(result.text)
                   /\ IF launched
                      THEN /\ status' = StatusBrowserOk
                           /\ effects' = {"write_html", "open_url"}
                      ELSE /\ status' = StatusBrowserFail
                           /\ effects' = {"write_html", "open_url_failed",
                                          "alert_warning"}
       ELSE /\ status' = StatusNoDisplay
            /\ effects' = {}
            /\ UNCHANGED htmlFile
    /\ clicks' = clicks + 1
    /\ lastOp' = "BrowserClicked"
    /\ UNCHANGED <<config, main, text, clipboard, textFile, imageFile>>

\* browserButton clicked. launched is the value of openUrl.
BrowserClicked ==
    /\ InLoop
    /\ IF text # <<>>
       THEN \E fileOpens \in BOOLEAN, launched \in BOOLEAN :
              IF ~fileOpens
              THEN /\ status' = StatusHtmlFailed
                   /\ effects' = {"write_html_failed", "alert_critical"}
                   /\ UNCHANGED htmlFile
              ELSE /\ htmlFile' = HtmlReport(text)
                   /\ IF launched
                      THEN /\ status' = StatusBrowserOk
                           /\ effects' = {"write_html", "open_url"}
                      ELSE /\ status' = StatusBrowserFail
                           /\ effects' = {"write_html", "open_url_failed",
                                          "alert_warning"}
       ELSE /\ status' = StatusNoDisplay
            /\ effects' = {}
            /\ UNCHANGED htmlFile
    /\ clicks' = clicks + 1
    /\ lastOp' = "BrowserClicked"
    /\ UNCHANGED <<config, main, text, clipboard, textFile, imageFile>>

\* The user closes the window: app.exec() returns.
CloseWindow ==
    /\ pc = "exec"
    /\ pc' = "exited"
    /\ exitCode' = 0
    /\ lastOp' = "CloseWindow"
    /\ effects' = {}
    /\ UNCHANGED <<config, captureOk, result, text, status, windowShown,
                   outside, held, log, clicks>>

Next ==
    \/ takeScreenshot
    \/ CaptureFailed
    \/ DetectQr
    \/ QrSuccess
    \/ ExtractText
    \/ OcrDone
    \/ UserEdit
    \/ CopyClicked
    \/ SaveClicked
    \/ SaveImageClicked
    \/ BrowserClicked
    \/ CloseWindow

Spec == Init /\ [][Next]_vars

\* ------------------------------------------------------------ properties
Calls(name) == {i \in 1..Len(log) : log[i].stage = name}

CaptureFailedRun == log # <<>> /\ log[1].stage = "capture" /\ ~log[1].ok
CaptureOkRun     == log # <<>> /\ log[1].stage = "capture" /\ log[1].ok
QrFailedRun      == \E i \in Calls("qr") : ~log[i].ok
QrDecodedRun     == \E i \in Calls("qr") : log[i].ok
RecognisedRun    == \E i \in Calls("qr") \cup Calls("ocr") : log[i].ok

\* s contains t as a substring (both strings).
Contains(s, t) ==
    \E i \in 1..(Len(s) - Len(t) + 1) : SubSeq(s, i, i + Len(t) - 1) = t

\* C1: when the capture command fails, the window is shown with an empty
\* text area and the status 'Error occurred while taking screenshot', a
\* blocking error alert is raised, neither barcode detection nor OCR is
\* ever invoked, and the program stays in the event loop until the user
\* closes the window.
C1_CaptureFailure ==
    /\ [](lastOp = "CaptureFailed" =>
            /\ windowShown
            /\ text = <<>>
            /\ status = StatusCaptureError
            /\ "alert_critical" \in effects
            /\ pc = "exec")
    /\ [](CaptureFailedRun => Calls("qr") = {} /\ Calls("ocr") = {})
    /\ [][CaptureFailedRun =>
            /\ (pc = "capture_failed" => lastOp' = "CaptureFailed")
            /\ (pc = "exec" => pc' = "exec" \/ lastOp' = "CloseWindow")]_vars

C1_Witness ==
    /\ CaptureFailedRun
    /\ windowShown
    /\ status = StatusCaptureError
    /\ lastOp = "CloseWindow"
    /\ pc = "exited"

\* C2 (as claimed): after a valid barcode decode the text area holds
\* exactly the decoded payload, the status indicates barcode success and
\* OCR is never invoked, with or without the auto-export flag.
C2_BarcodeTextShown ==
    QrDecodedRun /\ pc \in {"exec", "exited"} /\ clicks = 0 =>
        /\ text = result.text
        /\ status = StatusQrOk
        /\ Calls("ocr") = {}

\* C3: when capture succeeds and barcode detection is disabled or fails,
\* OCR is invoked exactly once, with the configured language string.
C3_OcrOnceWithLanguage ==
    /\ [](/\ CaptureOkRun
          /\ disableQr \/ QrFailedRun
          /\ pc \in {"ocr_done", "exec", "exited"}
          => /\ Cardinality(Calls("ocr")) = 1
             /\ \A i \in Calls("ocr") : log[i].arg = language)
    /\ [][language' = language]_vars

C3_Witness ==
    /\ QrFailedRun
    /\ language = "eng+hin"
    /\ pc = "exited"
    /\ \E i \in Calls("ocr") : log[i].arg = "eng+hin"

\* C4: when the auto-export flag is set and recognition succeeds (barcode
\* or OCR), the process exits with code 0, the window is never shown and
\* the event loop is never entered.
C4_AutoExportExits ==
    openInBrowser /\ RecognisedRun =>
        /\ ~windowShown
        /\ pc \in {"qr_ok", "ocr_done", "exited"}
        /\ pc = "exited" => exitCode = 0
        /\ lastOp \in {"QrSuccess", "OcrDone"} => pc = "exited"

C4_Witness ==
    /\ openInBrowser
    /\ lastOp = "OcrDone"
    /\ result.success
    /\ pc = "exited"
    /\ exitCode = 0
    /\ "write_html_failed" \in effects

\* C5: whenever OCR fails (engine initialisation or image load), the
\* window is shown with an empty text area and the error message as
\* status; for an initialisation failure the message contains the
\* requested language; with the auto-export flag set no HTML report is
\* written and the process does not exit.
C5_OcrFailureShown ==
    [][/\ lastOp = "ExtractText"
       /\ effects \cap {"ocr_init_failed", "pix_read_failed"} # {}
       => /\ lastOp' = "OcrDone"
          /\ windowShown'
          /\ text' = <<>>
          /\ status' = result.errorMessage
          /\ status' # ""
          /\ "ocr_init_failed" \in effects => Contains(status', language)
          /\ "pix_read_failed" \in effects => status' = ErrOcrLoad
          /\ htmlFile' = htmlFile
          /\ effects' \cap {"write_html", "write_html_failed", "open_url"} = {}
          /\ pc' = "exec"
          /\ exitCode' = -1]_vars

C5_Witness ==
    /\ lastOp = "OcrDone"
    /\ ~result.success
    /\ openInBrowser
    /\ language = "xx"
    /\ Contains(status, "xx")
    /\ text = <<>>
    /\ windowShown
    /\ pc = "exec"

WriteFailures == {"write_text_failed", "copy_image_failed", "write_html_failed"}
Alerts == {"alert_critical", "alert_warning"}
FailureStatuses == {StatusSaveFailed, StatusImageFailed, StatusHtmlFailed}

\* C6 (as claimed): every failure to write an export file (text file,
\* image copy, HTML report on the button path and on both auto-export
\* paths) raises a blocking alert and updates the status label, and the
\* write is not retried.
C6_WriteFailureSurfaced ==
    effects \cap WriteFailures # {} =>
        /\ effects \cap Alerts # {}
        /\ status \in FailureStatuses
        /\ effects \cap {"write_text", "copy_image", "write_html"} = {}

\* C7: with an empty text area Copy and Save Text only set the status
\* label ('No text to copy' / 'No text to save'): clipboard, files and
\* text area are unchanged and no dialog is opened.
C7_EmptyTextNoOp ==
    [][text = <<>> /\ lastOp' \in {"CopyClicked", "SaveClicked"} =>
          /\ clipboard' = clipboard
          /\ outside' = outside
          /\ text' = text
          /\ effects' = {}
          /\ status' = IF lastOp' = "CopyClicked" THEN StatusNoCopy
                       ELSE StatusNoSave]_vars

C7_Witness ==
    /\ lastOp = "CopyClicked"
    /\ text = <<>>
    /\ result.text # <<>>
    /\ clicks >= 2
    /\ status = StatusNoCopy
    /\ clipboard = Nothing

EntityNames == {<<"l", "t">>, <<"g", "t">>, <<"a", "m", "p">>,
                <<"q", "u", "o", "t">>}

EntityChar(name) ==
    CASE name = <<"l", "t">> -> "<"
      [] name = <<"g", "t">> -> ">"
      [] name = <<"a", "m", "p">> -> "&"
      [] name = <<"q", "u", "o", "t">> -> "\""
      [] OTHER -> "?"

\* What a browser shows for textarea content h: entities decoded.
RECURSIVE HtmlDecode(_)
HtmlDecode(h) ==
    IF h = <<>> THEN <<>>
    ELSE IF Head(h) = "&" /\ IndexOf(h, ";", 1) # 0
         THEN LET k == IndexOf(h, ";", 1)
              IN  <<EntityChar(SubSeq(h, 2, k - 1))>>
                    \o HtmlDecode(SubSeq(h, k + 1, Len(h)))
         ELSE <<Head(h)>> \o HtmlDecode(Tail(h))

\* No '<' or '>' in h, and every '&' of h starts an entity.
NoRawMarkup(h) ==
    \A i \in 1..Len(h) :
        /\ h[i] \notin {"<", ">"}
        /\ h[i] = "&" =>
             \E name \in EntityNames :
                SubSeq(h, i + 1, i + Len(name) + 1) = name \o <<";">>

\* The text an export step escapes: the text area for the button, the
\* recognition result for the auto-export paths.
ExportSource == IF lastOp = "BrowserClicked" THEN text ELSE result.text

\* C8: on every path that writes the HTML report, the embedded text is the
\* HTML-escaped source text: it holds no raw '<', '>' or '&' and decodes
\* back to the source.
C8_ReportEscaped ==
    "write_html" \in effects =>
        /\ lastOp \in {"BrowserClicked", "QrSuccess", "OcrDone"}
        /\ NoRawMarkup(htmlFile)
        /\ HtmlDecode(htmlFile) = ExportSource

C8_Witness ==
    /\ "write_html" \in effects
    /\ lastOp = "QrSuccess"
    /\ \E i, j, k \in 1..Len(result.text) :
          result.text[i] = "<" /\ result.text[j] = "&" /\ result.text[k] = ">"

\* C9: on every exit path of extractText (initialisation failure, image
\* load failure, success) nothing acquired is still held at the return.
C9_ExtractTextReleases ==
    held = {}

C9_Witness ==
    /\ lastOp = "ExtractText"
    /\ "ocr_init_failed" \in effects
    /\ held = {}

Rank(name) ==
    CASE name = "capture" -> 1
      [] name = "qr" -> 2
      [] name = "ocr" -> 3
      [] OTHER -> 4

\* C10: the stages run in the order capture, barcode detection, OCR,
\* display or export, each at most once; capture runs exactly once and
\* first; barcode detection only after a successful capture with
\* detection enabled; OCR only after a successful capture with detection
\* disabled or failed.
C10_LinearStages ==
    /\ pc = "capture" <=> log = <<>>
    /\ log # <<>> => log[1].stage = "capture"
    /\ \A i, j \in 1..Len(log) : i < j => Rank(log[i].stage) < Rank(log[j].stage)
    /\ Calls("qr") # {} => CaptureOkRun /\ ~disableQr
    /\ Calls("ocr") # {} => CaptureOkRun /\ (disableQr \/ QrFailedRun)
    /\ Calls("ocr") # {} => ~QrDecodedRun

C10_Witness ==
    /\ pc = "exited"
    /\ Len(log) = 4
    /\ QrFailedRun
    /\ \E i \in Calls("ocr") : ~log[i].ok

\* C11: the Export-to-browser button writes the HTML report and calls the
\* browser launcher only when the text area is non-empty at the click, and
\* the report then embeds the text area's current contents (not the
\* recognised text); with an empty text area it writes nothing, launches
\* nothing and only sets the status to 'No text to display'.
C11_BrowserExportCurrentText ==
    [][lastOp' = "BrowserClicked" =>
          /\ effects' \cap {"write_html", "open_url", "open_url_failed"} # {}
               => text # <<>>
          /\ "write_html" \in effects' =>
               /\ HtmlDecode(htmlFile') = text
               /\ effects' \cap {"open_url", "open_url_failed"} # {}
          /\ text = <<>> =>
               /\ effects' = {}
               /\ outside' = outside
               /\ text' = text
               /\ status' = StatusNoDisplay]_vars

C11_Witness ==
    /\ lastOp = "BrowserClicked"
    /\ "write_html" \in effects
    /\ clicks >= 2
    /\ text # <<>>
    /\ text # result.text
    /\ text # SetText(result.text)
    /\ HtmlDecode(htmlFile) = text

Buttons == {"CopyClicked", "SaveClicked", "SaveImageClicked", "BrowserClicked"}

\* C12: once the window is shown no button handler changes the text area
\* (only user edits do), and cancelling the file dialog of Save Text or
\* Save Image leaves the status label, the clipboard and the files
\* unchanged.
C12_ButtonsKeepText ==
    /\ [][lastOp' \in Buttons => text' = text]_vars
    /\ [][windowShown /\ text' # text => lastOp' = "UserEdit"]_vars
    /\ [][lastOp' \in {"SaveClicked", "SaveImageClicked"} /\ effects' = {"dialog"}
            => status' = status /\ outside' = outside /\ text' = text]_vars

C12_Witness ==
    /\ lastOp = "SaveImageClicked"
    /\ effects = {"dialog"}
    /\ clicks >= 2
    /\ status = StatusCopied
    /\ clipboard = text
    /\ text # <<>>
    /\ ~imageFile
====
